---------------------------- MODULE Spec2Model ----------------------------
(***************************************************************************)
(* A model of georga/models.py: the instance level authorization mixin     *)
(* (MixinAuthorization), the permission rules of ACE and Person, the       *)
(* cached administrative id sets of a Person object, and the state fields  *)
(* (django_fsm) of the entities that carry them.                           *)
(*                                                                         *)
(* Storage is the set of rows of each table.  A Q object is modelled by    *)
(* what the queryset does with it: the set of rows of the table it         *)
(* selects, plus the one thing Python asks of it, its truth value          *)
(* (Q() is falsy, a Q with conditions is truthy).                          *)
(***************************************************************************)
EXTENDS Integers, Sequences, FiniteSets, TLC

(***************************************************************************)
(* Bounds of the model.                                                    *)
(***************************************************************************)
MaxAces == 2        \* rows of the ACE table
MaxActions == 2     \* length of a tuple of actions

(***************************************************************************)
(* The rows the ACE table refers to.  Nothing in models.py changes them,   *)
(* so they are fixed: person 1 is staff and person 2 is not; project 1     *)
(* belongs to organization 1 and project 2 to organization 2; both         *)
(* operations belong to project 1, so that project 2 has none.             *)
(***************************************************************************)
PersonIds == {1, 2}
OrganizationIds == {1, 2}
ProjectIds == {1, 2}
OperationIds == {1, 2}
DeviceIds == {1}

staff == {1}                               \* Person.is_staff
project_organization == <<1, 2>>           \* Project.organization
operation_project == <<1, 1>>              \* Operation.project

(***************************************************************************)
(* Action strings.  'read', 'update', 'delete', 'create' and 'write' are   *)
(* the ones some permitted() names; 'share' is named by none.              *)
(***************************************************************************)
Actions == {"read", "update", "delete", "create", "write", "share"}

VARIABLES
    aces,     \* the rows of the ACE table
    user,     \* the Person object the caller holds as the actor
    last,     \* what the last operation was and what it returned
    obj       \* the entity whose state fields the transitions act on

vars == <<aces, user, last, obj>>

(***************************************************************************)
(* ACE rows.  unique_together makes the tuple (instance_ct, instance_id,   *)
(* person, permission) a key of the table, so a row stands for its pk.     *)
(***************************************************************************)
instance_cts == {"organization", "project", "operation"}
PERMISSIONS == {"ADMIN"}

TargetIds(ct) ==
    CASE ct = "organization" -> OrganizationIds
      [] ct = "project" -> ProjectIds
      [] ct = "operation" -> OperationIds
      [] OTHER -> {}

AceRows ==
    { r \in [instance_ct : instance_cts,
             instance_id : OrganizationIds \cup ProjectIds \cup OperationIds,
             person : PersonIds,
             permission : PERMISSIONS] :
        r.instance_id \in TargetIds(r.instance_ct) }

\* What a caller may put into an ACE it has not saved: any content type
\* (a 'task' is none of instance_cts) and any id (1 is a row of each of the
\* three tables, 3 is a project of no row).
UnsavedAceRows ==
    { r \in [instance_ct : instance_cts \cup {"task"},
             instance_id : {1, 3},
             person : {2},
             permission : PERMISSIONS] :
        r.instance_id = 3 => r.instance_ct = "project" }

(***************************************************************************)
(* Model instances.  some = FALSE is Python's None; persisted = FALSE is   *)
(* an instance whose id/pk is None.  key is the pk of a persisted row; of  *)
(* an unsaved ACE it holds the fields the caller has set.                  *)
(***************************************************************************)
Types == {"Device", "Person", "ACE"}

NoKey(type) == IF type = "ACE" THEN CHOOSE r \in AceRows : TRUE ELSE 0

None(type) == [some |-> FALSE, persisted |-> FALSE, key |-> NoKey(type)]

Table(type) ==
    CASE type = "Device" -> DeviceIds
      [] type = "Person" -> PersonIds
      [] type = "ACE" -> aces

Persisted(type) ==
    { [some |-> TRUE, persisted |-> TRUE, key |-> k] : k \in Table(type) }

Unsaved(type) ==
    IF type = "ACE"
    THEN { [some |-> TRUE, persisted |-> FALSE, key |-> r] : r \in UnsavedAceRows }
    ELSE { [some |-> TRUE, persisted |-> FALSE, key |-> 0] }

Instances(type) == Persisted(type) \cup Unsaved(type)

(***************************************************************************)
(* The actor: a Person object.  Each admin_*_ids is a cached_property: it  *)
(* is computed from storage on its first read and then kept on the object. *)
(***************************************************************************)
NotCached == [cached |-> FALSE, ids |-> {}]
Cached(ids) == [cached |-> TRUE, ids |-> ids]

Person(pk) ==
    [pk |-> pk,
     admin_organization_ids |-> NotCached,
     admin_project_ids |-> NotCached,
     admin_operation_ids |-> NotCached]

\* A mutant of is_staff: the flag is not looked at.
is_staff_anyone(u) == TRUE

is_staff(u) == u.pk \in staff

\* Q(ace__person=self.id, ace__permission="ADMIN") over the reverse generic
\* relation of a target table: one ACE row has to meet both conditions.
HasAdminAce(pk, ct, id) ==
    \E a \in aces :
        /\ a.instance_ct = ct
        /\ a.instance_id = id
        /\ a.person = pk
        /\ a.permission = "ADMIN"

query_admin_organization_ids(pk) ==
    { o \in OrganizationIds : HasAdminAce(pk, "organization", o) }

query_admin_project_ids(pk) ==
    { p \in ProjectIds :
        \/ HasAdminAce(pk, "organization", project_organization[p])
        \/ HasAdminAce(pk, "project", p) }

\* A mutant of query_admin_operation_ids: the lookup over the organization
\* of the project is left out.
query_admin_operation_ids_below_project(pk) ==
    { op \in OperationIds :
        \/ HasAdminAce(pk, "project", operation_project[op])
        \/ HasAdminAce(pk, "operation", op) }

query_admin_operation_ids(pk) ==
    { op \in OperationIds :
        \/ HasAdminAce(pk, "organization", project_organization[operation_project[op]])
        \/ HasAdminAce(pk, "project", operation_project[op])
        \/ HasAdminAce(pk, "operation", op) }

\* cached_property.__get__: the kept value if there is one, else the query.
admin_organization_ids(u) ==
    IF u.admin_organization_ids.cached
    THEN u.admin_organization_ids.ids
    ELSE query_admin_organization_ids(u.pk)

admin_project_ids(u) ==
    IF u.admin_project_ids.cached
    THEN u.admin_project_ids.ids
    ELSE query_admin_project_ids(u.pk)

admin_operation_ids(u) ==
    IF u.admin_operation_ids.cached
    THEN u.admin_operation_ids.ids
    ELSE query_admin_operation_ids(u.pk)

\* The object after the properties named in `names` were read.
ReadCached(u, names) ==
    [pk |-> u.pk,
     admin_organization_ids |->
        IF "admin_organization_ids" \in names
        THEN Cached(admin_organization_ids(u)) ELSE u.admin_organization_ids,
     admin_project_ids |->
        IF "admin_project_ids" \in names
        THEN Cached(admin_project_ids(u)) ELSE u.admin_project_ids,
     admin_operation_ids |->
        IF "admin_operation_ids" \in names
        THEN Cached(admin_operation_ids(u)) ELSE u.admin_operation_ids]

(***************************************************************************)
(* What permitted() returns: True, False, None or a Q object.              *)
(***************************************************************************)
PyTrue == [kind |-> "True", children |-> FALSE, rows |-> {}]
PyFalse == [kind |-> "False", children |-> FALSE, rows |-> {}]
PyNone == [kind |-> "None", children |-> FALSE, rows |-> {}]
\* Q(**lookups): a Q with conditions, selecting `rows` of its table.
Q(rows) == [kind |-> "Q", children |-> TRUE, rows |-> rows]
\* Q(): no condition.
EmptyQ == [kind |-> "Q", children |-> FALSE, rows |-> {}]
PyBool(b) == IF b THEN PyTrue ELSE PyFalse

\* A mutant of IsUnpersisted: the test is left out.
IsUnpersisted_never(instance) == FALSE

\* An instance that is not None and has no id: `instance and not instance.id`.
IsUnpersisted(instance) == instance.some /\ ~instance.persisted

\* ACE.instance, the GenericForeignKey: the class of the row that
\* (instance_ct, instance_id) names, or none when there is no such row.
InstanceClass(row) ==
    CASE row.instance_ct = "organization" /\ row.instance_id \in OrganizationIds
            -> "Organization"
      [] row.instance_ct = "project" /\ row.instance_id \in ProjectIds
            -> "Project"
      [] row.instance_ct = "operation" /\ row.instance_id \in OperationIds
            -> "Operation"
      [] OTHER -> "NoneType"

\* Mutants of AcesOn and AcesOnProjectsOf: the content type of the generic
\* relation is not part of the join.
AcesOn_any_content_type(ct, ids) == { a \in aces : a.instance_id \in ids }

AcesOnProjectsOf_any_content_type(orgs) ==
    { a \in aces : project_organization[a.instance_id] \in orgs }

\* The lookups of ACE.permitted's Q objects over the ACE table.
AcesOfPerson(pk) == { a \in aces : a.person = pk }
AcesOn(ct, ids) == { a \in aces : a.instance_ct = ct /\ a.instance_id \in ids }
AcesOnProjectsOf(orgs) ==
    { a \in aces : a.instance_ct = "project"
                   /\ project_organization[a.instance_id] \in orgs }
AcesOnOperationsOf(projects) ==
    { a \in aces : a.instance_ct = "operation"
                   /\ operation_project[a.instance_id] \in projects }

\* A mutant of Mixin_permitted: persisted instances are allowed by default.
Mixin_permitted_allows(instance, u, action) ==
    IF IsUnpersisted(instance) THEN PyFalse ELSE PyTrue

\* MixinAuthorization.permitted, the rule of every model that does not
\* override it.
Mixin_permitted(instance, u, action) ==
    IF IsUnpersisted(instance) THEN PyFalse ELSE PyNone

ACE_permitted(ace, u, action) ==
    IF ~is_staff(u) THEN PyFalse
    ELSE IF IsUnpersisted(ace) /\ action # "create" THEN PyFalse
    ELSE IF /\ IsUnpersisted(ace)
            /\ InstanceClass(ace.key) = "Project"
         THEN PyBool(project_organization[ace.key.instance_id]
                        \in admin_organization_ids(u))
    ELSE IF /\ IsUnpersisted(ace)
            /\ InstanceClass(ace.key) = "Operation"
         THEN PyBool(operation_project[ace.key.instance_id]
                        \in admin_project_ids(u))
    \* an unsaved ACE on anything else leaves the first match statement
    \* without a return and goes on to the second one
    ELSE CASE action = "read" ->
                Q(AcesOfPerson(u.pk)
                  \cup AcesOn("organization", admin_organization_ids(u))
                  \cup AcesOn("project", admin_project_ids(u))
                  \cup AcesOn("operation", admin_operation_ids(u)))
           [] action = "update" ->
                Q(AcesOn("organization", admin_organization_ids(u))
                  \cup AcesOn("project", admin_project_ids(u))
                  \cup AcesOn("operation", admin_operation_ids(u)))
           [] action = "delete" ->
                Q(AcesOnProjectsOf(admin_organization_ids(u))
                  \cup AcesOnOperationsOf(admin_project_ids(u)))
           [] OTHER -> PyNone

\* A mutant of Person_permitted: the match on the action is left out.
Person_permitted_any_action(person, u, action) ==
    IF IsUnpersisted(person) THEN PyFalse
    ELSE Q({ p \in PersonIds : p = u.pk })

\* A mutant of Person_permitted: the Q object does not name the user.
Person_permitted_every_person(person, u, action) ==
    IF IsUnpersisted(person) THEN PyFalse
    ELSE IF action \in {"read", "write"} THEN Q(PersonIds)
    ELSE PyNone

Person_permitted(person, u, action) ==
    IF IsUnpersisted(person) THEN PyFalse
    ELSE IF action \in {"read", "write"} THEN Q({ p \in PersonIds : p = u.pk })
    ELSE PyNone

\* cls.permitted: the method of the class the call is made on.
permitted(type, instance, u, action) ==
    CASE type = "ACE" -> ACE_permitted(instance, u, action)
      [] type = "Person" -> Person_permitted(instance, u, action)
      [] OTHER -> Mixin_permitted(instance, u, action)

\* The cached properties one call of permitted() reads.
PropertiesRead(type, instance, u, action) ==
    IF type # "ACE" \/ ~is_staff(u) THEN {}
    ELSE IF IsUnpersisted(instance) /\ action # "create" THEN {}
    ELSE IF IsUnpersisted(instance) /\ InstanceClass(instance.key) = "Project"
         THEN {"admin_organization_ids"}
    ELSE IF IsUnpersisted(instance) /\ InstanceClass(instance.key) = "Operation"
         THEN {"admin_project_ids"}
    ELSE CASE action \in {"read", "update"} ->
                {"admin_organization_ids", "admin_project_ids", "admin_operation_ids"}
           [] action = "delete" -> {"admin_organization_ids", "admin_project_ids"}
           [] OTHER -> {}

(***************************************************************************)
(* The `actions` argument as Python sees it: a str, a tuple, or something  *)
(* else (a list, None); a member of a tuple is a str or is not (an int).   *)
(***************************************************************************)
PyStr(a) == [py |-> "str", s |-> a]
NotAStr == [py |-> "int", s |-> "7"]
Members == { PyStr(a) : a \in Actions } \cup {NotAStr}

SeqsUpTo(S, n) == UNION { [1..k -> S] : k \in 0..n }

StrArg(a) == [py |-> "str", items |-> <<PyStr(a)>>]
TupleArg(items) == [py |-> "tuple", items |-> items]
ListArg(items) == [py |-> "list", items |-> items]
NoneArg == [py |-> "NoneType", items |-> <<>>]

ActionsArgs ==
    { StrArg(a) : a \in Actions }
    \cup { TupleArg(items) : items \in SeqsUpTo(Members, MaxActions) }
    \cup { ListArg(<<PyStr("read")>>), NoneArg }

\* A mutant of prepare_permission_actions: the members are not asserted.
prepare_permission_actions_unasserted(actions) ==
    IF actions.py \notin {"str", "tuple"}
    THEN [raised |-> TRUE, actions |-> <<>>]
    ELSE [raised |-> FALSE,
          actions |-> [i \in 1..Len(actions.items) |-> actions.items[i].s]]

\* _prepare_permission_actions: a str becomes a 1-tuple; the two asserts
\* raise AssertionError for anything that is not a tuple of str.
prepare_permission_actions(actions) ==
    IF actions.py \notin {"str", "tuple"}
    THEN [raised |-> TRUE, actions |-> <<>>]
    ELSE IF \E i \in 1..Len(actions.items) : actions.items[i].py # "str"
    THEN [raised |-> TRUE, actions |-> <<>>]
    ELSE [raised |-> FALSE,
          actions |-> [i \in 1..Len(actions.items) |-> actions.items[i].s]]

\* Mutants of Q_or: `q &= permitted`, and `q = permitted`.
Q_and(q, other) ==
    IF ~other.children THEN q
    ELSE IF ~q.children THEN other
    ELSE Q(q.rows \cap other.rows)

Q_overwrites(q, other) == other

\* Q.__or__: an operand without conditions is dropped.
Q_or(q, other) ==
    IF ~other.children THEN q
    ELSE IF ~q.children THEN other
    ELSE Q(q.rows \cup other.rows)

\* The loop of filter_permitted from action i on, with q as combined so far.
\* Its result is True (the early `return queryset`) or the combined Q.
RECURSIVE CombineFrom(_, _, _, _, _, _)
CombineFrom(type, instance, u, actions, i, q) ==
    IF i > Len(actions) THEN q
    ELSE LET p == permitted(type, instance, u, actions[i]) IN
         IF p.kind \in {"False", "None"}
         THEN CombineFrom(type, instance, u, actions, i + 1, q)
         ELSE IF p.kind = "True" THEN PyTrue
         ELSE CombineFrom(type, instance, u, actions, i + 1, Q_or(q, p))

\* A queryset argument: None, or a queryset holding `rows` of the table.
NoQueryset == [some |-> FALSE, rows |-> {}]
Queryset(rows) == [some |-> TRUE, rows |-> rows]
objects(type) == Queryset(Table(type))

Raised == [raised |-> TRUE, rows |-> {}, value |-> FALSE]
Rows(rows) == [raised |-> FALSE, rows |-> rows, value |-> FALSE]
Bool(b) == [raised |-> FALSE, rows |-> {}, value |-> b]

filter_permitted(type, queryset, instance, u, actions) ==
    LET qs == IF queryset.some THEN queryset ELSE objects(type)
        prepared == prepare_permission_actions(actions)
    IN  IF prepared.raised THEN Raised
        ELSE LET q == CombineFrom(type, instance, u, prepared.actions, 1, EmptyQ) IN
             IF q.kind = "True" THEN Rows(qs.rows)
             ELSE IF q.children THEN Rows(qs.rows \cap q.rows)
             ELSE Rows({})

\* bool(x) of a value permitted() returned.
Truthy(p) == p.kind = "True" \/ (p.kind = "Q" /\ p.children)

\* Mutants of PermitsPath: the test of self.pk is left out, either way.
PermitsPath_always_direct(self) == "direct"

PermitsPath_always_filter(self) == "filter"

\* Which of its two ways permits() takes for `self`.
PermitsPath(self) == IF ~self.persisted THEN "direct" ELSE "filter"

permits(type, self, u, actions) ==
    IF PermitsPath(self) = "direct"
    THEN LET prepared == prepare_permission_actions(actions) IN
         IF prepared.raised THEN Raised
         ELSE Bool(\E i \in 1..Len(prepared.actions) :
                      Truthy(permitted(type, self, u, prepared.actions[i])))
    ELSE LET qs == filter_permitted(type, objects(type), self, u, actions) IN
         IF qs.raised THEN Raised
         \* qs.filter(pk=self.pk).exists(): no row has the pk None
         ELSE Bool(self.persisted /\ self.key \in qs.rows)

\* What one call of permitted() reads from storage: the row ACE.instance
\* names, and each cached property that is read while nothing is cached.
StorageRead(type, instance, u, action) ==
    ( IF /\ type = "ACE" /\ is_staff(u)
         /\ IsUnpersisted(instance) /\ action = "create"
      THEN {"instance"} ELSE {} )
    \cup { name \in PropertiesRead(type, instance, u, action) : ~u[name].cached }

\* What permits() reads from storage: on the filter path the queryset is
\* evaluated by exists().
PermitsStorageRead(type, self, u, actions) ==
    LET prepared == prepare_permission_actions(actions) IN
    IF prepared.raised THEN {}
    ELSE ( IF PermitsPath(self) = "filter" THEN {"queryset"} ELSE {} )
         \cup UNION { StorageRead(type, self, u, prepared.actions[i]) :
                         i \in 1..Len(prepared.actions) }

\* The actions a call evaluates permitted() for: all of them on the direct
\* path, those up to the first True in filter_permitted.
RECURSIVE Evaluated(_, _, _, _, _)
Evaluated(type, instance, u, actions, i) ==
    IF i > Len(actions) THEN {}
    ELSE {i} \cup
         IF permitted(type, instance, u, actions[i]).kind = "True" THEN {}
         ELSE Evaluated(type, instance, u, actions, i + 1)

\* The actor object after filter_permitted ran.
UserAfterFilter(type, instance, u, actions) ==
    LET prepared == prepare_permission_actions(actions) IN
    IF prepared.raised THEN u
    ELSE ReadCached(u, UNION { PropertiesRead(type, instance, u, prepared.actions[i]) :
                                 i \in Evaluated(type, instance, u, prepared.actions, 1) })

\* The actor object after permits() ran.
UserAfterPermits(type, self, u, actions) ==
    LET prepared == prepare_permission_actions(actions) IN
    IF PermitsPath(self) = "filter" THEN UserAfterFilter(type, self, u, actions)
    ELSE IF prepared.raised THEN u
    ELSE ReadCached(u, UNION { PropertiesRead(type, self, u, prepared.actions[i]) :
                                 i \in 1..Len(prepared.actions) })

(***************************************************************************)
(* The operations on storage and on the actor object.                      *)
(***************************************************************************)
NoCall == [op |-> "none", raised |-> FALSE, value |-> FALSE]

NoEntity == [type |-> "none"]

\* A caller loads the actor anew (Person.objects.get): a new object, with
\* nothing cached on it.
LoadUser(pk) ==
    /\ user' = Person(pk)
    /\ last' = [NoCall EXCEPT !.op = "load"]
    /\ UNCHANGED <<aces, obj>>

\* ACE.save() of a new row; unique_together keeps the table a set.
SaveAce(row) ==
    /\ row \notin aces
    /\ Cardinality(aces) < MaxAces
    /\ aces' = aces \cup {row}
    /\ last' = [NoCall EXCEPT !.op = "save"]
    /\ UNCHANGED <<user, obj>>

\* ACE.delete() of a row.
DeleteAce(row) ==
    /\ row \in aces
    /\ aces' = aces \ {row}
    /\ last' = [NoCall EXCEPT !.op = "delete"]
    /\ UNCHANGED <<user, obj>>

\* self.permits(user, actions)
CallPermits(type, self, actions) ==
    LET r == permits(type, self, user, actions) IN
    /\ user' = UserAfterPermits(type, self, user, actions)
    /\ last' = [op |-> "permits", raised |-> r.raised, value |-> r.value]
    /\ UNCHANGED <<aces, obj>>

\* cls.filter_permitted(queryset, instance, user, actions); `value` tells
\* whether the queryset returned holds a row.
CallFilterPermitted(type, queryset, instance, actions) ==
    LET r == filter_permitted(type, queryset, instance, user, actions) IN
    /\ user' = UserAfterFilter(type, instance, user, actions)
    /\ last' = [op |-> "filter_permitted", raised |-> r.raised, value |-> r.rows # {}]
    /\ UNCHANGED <<aces, obj>>

Querysets(type) == {NoQueryset} \cup { Queryset(rows) : rows \in SUBSET Table(type) }

\* The arguments the callers of the model pass.
CalledQuerysets(type) == {NoQueryset} \cup { Queryset({k}) : k \in Table(type) }
CalledMembers == {PyStr("read"), PyStr("create")}
CalledArgs ==
    { StrArg(a) : a \in {"read", "delete", "create"} }
    \cup { TupleArg(items) : items \in SeqsUpTo(CalledMembers, MaxActions) }
    \cup { TupleArg(<<NotAStr>>), NoneArg }

Permits ==
    \E type \in Types : \E self \in Instances(type) : \E actions \in CalledArgs :
        CallPermits(type, self, actions)

FilterPermitted ==
    \E type \in Types : \E queryset \in CalledQuerysets(type) :
    \E actions \in CalledArgs :
        CallFilterPermitted(type, queryset, None(type), actions)

(***************************************************************************)
(* Spec: permission checks against a given content of the ACE table.       *)
(***************************************************************************)
Init ==
    /\ aces \in { rows \in SUBSET AceRows : Cardinality(rows) <= MaxAces }
    /\ user \in { Person(pk) : pk \in PersonIds }
    /\ last = NoCall
    /\ obj = NoEntity

Next ==
    \/ \E pk \in PersonIds : LoadUser(pk)
    \/ Permits
    \/ FilterPermitted

Spec == Init /\ [][Next]_vars

(***************************************************************************)
(* SpecAdmin: access control entries are saved and deleted between the     *)
(* permission checks of an actor object.                                   *)
(***************************************************************************)
InitAdmin ==
    /\ aces = {}
    /\ user \in { Person(pk) : pk \in PersonIds }
    /\ last = NoCall
    /\ obj = NoEntity

NextAdmin ==
    \/ \E pk \in PersonIds : LoadUser(pk)
    \/ \E row \in AceRows : SaveAce(row)
    \/ \E row \in AceRows : DeleteAce(row)
    \/ \E self \in Instances("ACE") : \E action \in Actions :
          CallPermits("ACE", self, StrArg(action))

SpecAdmin == InitAdmin /\ [][NextAdmin]_vars

(***************************************************************************)
(* The lifecycle of Message, Operation, Organization, Project, Shift and   *)
(* Task: an FSMField `state` and methods decorated with                    *)
(* @transition(state, source, target).  A transition changes the field of  *)
(* the object in memory; no method of the models saves it.                 *)
(***************************************************************************)
\* @transition(field, source, target, conditions=..., on_error=...); a target
\* RETURN_VALUE(...) is kept as the set `returns` of the states it allows.
FieldTransition(field, source, target, conditions, on_error) ==
    [field |-> field, source |-> source, target |-> target, returns |-> {},
     conditions |-> conditions, on_error |-> on_error]

RETURN_VALUE(field, source, allowed) ==
    [field |-> field, source |-> source, target |-> "", returns |-> allowed,
     conditions |-> {}, on_error |-> ""]

Transition(source, target) == FieldTransition("state", source, target, {}, "")

\* The four transitions of one delivery channel of a Message.
schedule(field) == FieldTransition(field, {"NONE"}, "SCHEDULED", {}, "")
send(field) == FieldTransition(field, {"SCHEDULED"}, "SENT", {}, "FAILED")
check_delivery(field) == RETURN_VALUE(field, {"SENT"}, {"SUCCEEDED", "FAILED"})

\* A mutant of resend: declared from any state.
resend_from_any(field) == FieldTransition(field, {"*"}, "SENT", {}, "FAILED")

resend(field) == FieldTransition(field, {"FAILED"}, "SENT", {}, "FAILED")

\* A mutant of Message_transitions: send_push() is declared on the field
\* email_delivery.
Message_transitions_push_on_email ==
    [ publish |-> Transition({"DRAFT"}, "PUBLISHED"),
      archive |-> Transition({"PUBLISHED"}, "ARCHIVED"),
      delete  |-> Transition({"*"}, "DELETED"),
      schedule_email       |-> schedule("email_delivery"),
      send_email           |-> send("email_delivery"),
      check_email_delivery |-> check_delivery("email_delivery"),
      resend_email         |-> resend("email_delivery"),
      schedule_push        |-> schedule("push_delivery"),
      send_push            |-> send("email_delivery"),
      check_push_delivery  |-> check_delivery("push_delivery"),
      resend_push          |-> resend("push_delivery"),
      schedule_sms         |-> schedule("sms_delivery"),
      send_sms             |-> send("sms_delivery"),
      check_sms_delivery   |-> check_delivery("sms_delivery"),
      resend_sms           |-> resend("sms_delivery") ]

Message_transitions ==
    [ publish |-> Transition({"DRAFT"}, "PUBLISHED"),
      archive |-> Transition({"PUBLISHED"}, "ARCHIVED"),
      delete  |-> Transition({"*"}, "DELETED"),
      schedule_email       |-> schedule("email_delivery"),
      send_email           |-> send("email_delivery"),
      check_email_delivery |-> check_delivery("email_delivery"),
      resend_email         |-> resend("email_delivery"),
      schedule_push        |-> schedule("push_delivery"),
      send_push            |-> send("push_delivery"),
      check_push_delivery  |-> check_delivery("push_delivery"),
      resend_push          |-> resend("push_delivery"),
      schedule_sms         |-> schedule("sms_delivery"),
      send_sms             |-> send("sms_delivery"),
      check_sms_delivery   |-> check_delivery("sms_delivery"),
      resend_sms           |-> resend("sms_delivery") ]

\* A mutant of Participant_transitions: confirm() and refuse() are declared
\* without conditions.
Participant_transitions_unconditional ==
    [ accept    |-> FieldTransition("acceptance", {"+"}, "ACCEPTED", {}, ""),
      decline   |-> FieldTransition("acceptance", {"+"}, "DECLINED", {}, ""),
      reinquire |-> FieldTransition("acceptance", {"+"}, "PENDING", {}, ""),
      confirm   |-> FieldTransition("admin_acceptance", {"+"}, "ACCEPTED", {}, ""),
      refuse    |-> FieldTransition("admin_acceptance", {"+"}, "DECLINED", {}, "") ]

Participant_transitions ==
    [ accept    |-> FieldTransition("acceptance", {"+"}, "ACCEPTED", {}, ""),
      decline   |-> FieldTransition("acceptance", {"+"}, "DECLINED", {}, ""),
      reinquire |-> FieldTransition("acceptance", {"+"}, "PENDING", {}, ""),
      confirm   |-> FieldTransition("admin_acceptance", {"+"}, "ACCEPTED",
                                    {"has_accepted"}, ""),
      refuse    |-> FieldTransition("admin_acceptance", {"+"}, "DECLINED",
                                    {"has_accepted"}, "") ]

Operation_transitions ==
    [ publish |-> Transition({"DRAFT"}, "PUBLISHED"),
      archive |-> Transition({"PUBLISHED"}, "ARCHIVED"),
      delete  |-> Transition({"*"}, "DELETED") ]

Organization_transitions ==
    [ publish |-> Transition({"DRAFT"}, "PUBLISHED"),
      archive |-> Transition({"PUBLISHED"}, "ARCHIVED"),
      delete  |-> Transition({"*"}, "DELETED") ]

Project_transitions ==
    [ publish |-> Transition({"DRAFT"}, "PUBLISHED"),
      archive |-> Transition({"PUBLISHED"}, "ARCHIVED"),
      delete  |-> Transition({"*"}, "DELETED") ]

\* A mutant of Shift_transitions: publish() is declared from any state.
Shift_transitions_publish_any ==
    [ publish |-> Transition({"*"}, "PUBLISHED"),
      finish  |-> Transition({"PUBLISHED"}, "FINISHED"),
      cancel  |-> Transition({"PUBLISHED"}, "CANCELED"),
      archive |-> Transition({"PUBLISHED", "FINISHED", "CANCELLED"}, "ARCHIVED"),
      delete  |-> Transition({"*"}, "DELETED") ]

\* The source list of archive() names 'CANCELLED'; the state is 'CANCELED'.
Shift_transitions ==
    [ publish |-> Transition({"DRAFT"}, "PUBLISHED"),
      finish  |-> Transition({"PUBLISHED"}, "FINISHED"),
      cancel  |-> Transition({"PUBLISHED"}, "CANCELED"),
      archive |-> Transition({"PUBLISHED", "FINISHED", "CANCELLED"}, "ARCHIVED"),
      delete  |-> Transition({"*"}, "DELETED") ]

Task_transitions ==
    [ publish |-> Transition({"DRAFT"}, "PUBLISHED"),
      archive |-> Transition({"PUBLISHED"}, "ARCHIVED"),
      delete  |-> Transition({"*"}, "DELETED") ]

LifecycleTypes ==
    {"Message", "Operation", "Organization", "Project", "Shift", "Task"}

transitions(type) ==
    CASE type = "Message"      -> Message_transitions
      [] type = "Operation"    -> Operation_transitions
      [] type = "Organization" -> Organization_transitions
      [] type = "Project"      -> Project_transitions
      [] type = "Shift"        -> Shift_transitions
      [] type = "Task"         -> Task_transitions
      [] type = "Participant"  -> Participant_transitions

\* A mutant of has_transition: the source is not looked at.
has_transition_any(t, state) == TRUE

\* django_fsm: a transition is declared for the current state if the state
\* is among its sources, or the source is '*', or the source is '+' and the
\* state is not the target.
has_transition(t, state) ==
    \/ state \in t.source
    \/ "*" \in t.source
    \/ ("+" \in t.source /\ t.target # state)

\* Participant.has_accepted
has_accepted(entity) == entity.acceptance = "ACCEPTED"

\* django_fsm: every condition of the transition holds for the object.
conditions_met(t, entity) ==
    \A condition \in t.conditions :
        condition = "has_accepted" => has_accepted(entity)

FsmTypes == LifecycleTypes \cup {"Participant"}

\* The FSMFields of a class.
StateFields(type) ==
    CASE type = "Message" -> {"state", "email_delivery", "push_delivery", "sms_delivery"}
      [] type = "Participant" -> {"acceptance", "admin_acceptance"}
      [] OTHER -> {"state"}

\* An object of a class with FSMFields: the fields, and whether it has a
\* pk, that is a row in storage.  A new object has the defaults and no pk.
Entity(type) ==
    CASE type = "Message" ->
            [type |-> type, state |-> "DRAFT", pk |-> FALSE,
             email_delivery |-> "NONE", push_delivery |-> "NONE",
             sms_delivery |-> "NONE"]
      [] type = "Participant" ->
            [type |-> type, pk |-> FALSE,
             acceptance |-> "PENDING", admin_acceptance |-> "NONE"]
      [] OTHER -> [type |-> type, state |-> "DRAFT", pk |-> FALSE]

\* `entity`: the object as it was before the call; `before`: the value the
\* field of the transition had.
NoTransition ==
    [op |-> "none", raised |-> FALSE, error |-> "", before |-> "DRAFT",
     hard |-> FALSE, entity |-> NoEntity, result |-> ""]

\* A mutant of Model_delete: the object is not asked for its pk.
Model_delete_unchecked(entity) ==
    [raised |-> FALSE, error |-> "", entity |-> [entity EXCEPT !.pk = FALSE]]

\* Model.delete(), called by delete(hard=True): it raises ValueError for an
\* object without pk, else removes the row and sets the pk to None.
Model_delete(entity) ==
    IF ~entity.pk
    THEN [raised |-> TRUE, error |-> "ValueError", entity |-> entity]
    ELSE [raised |-> FALSE, error |-> "", entity |-> [entity EXCEPT !.pk = FALSE]]

\* The body of the decorated method: `pass`, but for delete(hard=True) and
\* for check_*_delivery, which returns 'SUCCEEDED' (`if True:`).
Body(entity, method, hard) ==
    IF method = "delete" /\ hard
    THEN [result |-> ""] @@ Model_delete(entity)
    ELSE [raised |-> FALSE, error |-> "", entity |-> entity,
          result |-> IF method \in {"check_email_delivery", "check_push_delivery",
                                     "check_sms_delivery"}
                     THEN "SUCCEEDED" ELSE ""]

\* django_fsm, the call of a decorated method: TransitionNotAllowed without
\* a transition for the current value of the field, or with a condition that
\* does not hold; else the body runs and the field is set after it returned,
\* to the target or to the state RETURN_VALUE takes from the result.  An
\* exception of the body sets the field to on_error, if one is named, and
\* is raised again.
change_state(entity, method, hard) ==
    LET t == transitions(entity.type)[method] IN
    IF ~has_transition(t, entity[t.field]) \/ ~conditions_met(t, entity)
    THEN [raised |-> TRUE, error |-> "TransitionNotAllowed", entity |-> entity,
          result |-> ""]
    ELSE LET r == Body(entity, method, hard) IN
         IF r.raised
         THEN IF t.on_error = "" THEN r
              ELSE [r EXCEPT !.entity = [r.entity EXCEPT ![t.field] = t.on_error]]
         ELSE IF t.returns = {}
         THEN [r EXCEPT !.entity = [r.entity EXCEPT ![t.field] = t.target]]
         ELSE IF r.result \in t.returns
         THEN [r EXCEPT !.entity = [r.entity EXCEPT ![t.field] = r.result]]
         ELSE [r EXCEPT !.raised = TRUE, !.error = "InvalidResultState"]

CallTransition(method, hard) ==
    /\ obj.type \in FsmTypes
    /\ method \in DOMAIN transitions(obj.type)
    /\ LET r == change_state(obj, method, hard) IN
          /\ obj' = r.entity
          /\ last' = [op |-> method, raised |-> r.raised, error |-> r.error,
                      before |-> obj[transitions(obj.type)[method].field],
                      hard |-> hard, entity |-> obj, result |-> r.result]
    /\ UNCHANGED <<aces, user>>

\* A new object of the class is constructed.
New(type) ==
    /\ obj' = Entity(type)
    /\ last' = [NoTransition EXCEPT !.op = "new"]
    /\ UNCHANGED <<aces, user>>

\* obj.save(): the row is written, the object has a pk.
Save ==
    /\ obj.type \in FsmTypes
    /\ obj' = [obj EXCEPT !.pk = TRUE]
    /\ last' = [NoTransition EXCEPT !.op = "save", !.entity = obj]
    /\ UNCHANGED <<aces, user>>

\* A mutant of DeliveryOrder: 'SENT' is looked for before 'PENDING'.
DeliveryOrder_sent_first == <<"ERROR", "SENT", "PENDING", "SUCCESS">>

\* The order in which Message.delivery_state looks for a state.
DeliveryOrder == <<"ERROR", "PENDING", "SENT", "SUCCESS">>

\* Message.delivery_state: the first state of the order that a channel is in.
delivery_state(entity) ==
    LET channels == <<entity.email_delivery, entity.push_delivery, entity.sms_delivery>>
        hits == { i \in 1..Len(DeliveryOrder) :
                    \E j \in 1..3 : channels[j] = DeliveryOrder[i] }
    IN  IF hits = {} THEN "NONE"
        ELSE DeliveryOrder[CHOOSE i \in hits : \A k \in hits : i <= k]

\* message.delivery_state is read.
GetDeliveryState ==
    /\ obj.type = "Message"
    /\ last' = [NoTransition EXCEPT !.op = "delivery_state", !.entity = obj,
                                    !.result = delivery_state(obj)]
    /\ UNCHANGED <<aces, user, obj>>

publish == CallTransition("publish", FALSE)
archive == CallTransition("archive", FALSE)
finish == CallTransition("finish", FALSE)
cancel == CallTransition("cancel", FALSE)
delete == \E hard \in BOOLEAN : CallTransition("delete", hard)

schedule_email == CallTransition("schedule_email", FALSE)
send_email == CallTransition("send_email", FALSE)
check_email_delivery == CallTransition("check_email_delivery", FALSE)
resend_email == CallTransition("resend_email", FALSE)
schedule_push == CallTransition("schedule_push", FALSE)
send_push == CallTransition("send_push", FALSE)
check_push_delivery == CallTransition("check_push_delivery", FALSE)
resend_push == CallTransition("resend_push", FALSE)
schedule_sms == CallTransition("schedule_sms", FALSE)
send_sms == CallTransition("send_sms", FALSE)
check_sms_delivery == CallTransition("check_sms_delivery", FALSE)
resend_sms == CallTransition("resend_sms", FALSE)

accept == CallTransition("accept", FALSE)
decline == CallTransition("decline", FALSE)
reinquire == CallTransition("reinquire", FALSE)
confirm == CallTransition("confirm", FALSE)
refuse == CallTransition("refuse", FALSE)

MessageMethods ==
    \/ schedule_email \/ send_email \/ check_email_delivery \/ resend_email
    \/ schedule_push \/ send_push \/ check_push_delivery \/ resend_push
    \/ schedule_sms \/ send_sms \/ check_sms_delivery \/ resend_sms

ParticipantMethods ==
    accept \/ decline \/ reinquire \/ confirm \/ refuse

(***************************************************************************)
(* SpecFsm: the methods of one object of a lifecycle type are called in    *)
(* any order.                                                              *)
(***************************************************************************)
InitFsm ==
    /\ aces = {}
    /\ user = Person(1)
    /\ last = NoTransition
    /\ obj \in { Entity(type) : type \in FsmTypes }

NextFsm ==
    \/ \E type \in FsmTypes : New(type)
    \/ Save
    \/ publish
    \/ archive
    \/ finish
    \/ cancel
    \/ delete
    \/ MessageMethods
    \/ GetDeliveryState
    \/ ParticipantMethods

SpecFsm == InitFsm /\ [][NextFsm]_vars

(***************************************************************************)
(* SpecStored: as SpecFsm, for an object loaded from storage.  The fields  *)
(* are not protected and the transitions do not save; a row holds any of   *)
(* the choices declared for a field.                                       *)
(***************************************************************************)
STATES(type) ==
    IF type = "Shift"
    THEN {"DRAFT", "PUBLISHED", "FINISHED", "CANCELED", "ARCHIVED", "DELETED"}
    ELSE {"DRAFT", "PUBLISHED", "ARCHIVED", "DELETED"}

DELIVERY_STATES == {"NONE", "PENDING", "SENT", "SUCCEEDED", "FAILED"}

ACCEPTANCE_STATES == {"ACCEPTED", "DECLINED", "PENDING"}

ADMIN_ACCEPTANCE_STATES == ACCEPTANCE_STATES \cup {"NONE"}

\* The objects of a class that Model.objects.get() may return.
Stored(type) ==
    CASE type = "Message" ->
            [type : {type}, state : STATES(type), pk : {TRUE},
             email_delivery : DELIVERY_STATES, push_delivery : DELIVERY_STATES,
             sms_delivery : DELIVERY_STATES]
      [] type = "Participant" ->
            [type : {type}, pk : {TRUE},
             acceptance : ACCEPTANCE_STATES, admin_acceptance : ADMIN_ACCEPTANCE_STATES]
      [] OTHER -> [type : {type}, state : STATES(type), pk : {TRUE}]

InitStored ==
    /\ aces = {}
    /\ user = Person(1)
    /\ last = NoTransition
    /\ obj \in UNION { Stored(type) : type \in FsmTypes }

SpecStored == InitStored /\ [][NextFsm]_vars

(***************************************************************************)
(* ACE.clean(), the validation of an access control entry.  Person 1 is    *)
(* employed at organization 2 and person 2 at organization 1.  A content   *)
(* type is named by its model; 'group' is of the app 'auth', the others    *)
(* are of 'georga'.                                                        *)
(***************************************************************************)
organizations_employed == <<{2}, {1}>>     \* Person.organizations_employed

ContentTypeModels == instance_cts \cup {"task", "group"}

app_label(model) == IF model = "group" THEN "auth" ELSE "georga"

\* The entries clean() is called on: any content type, and an id of a row
\* (1, 2) or of none (3).
CleanRows ==
    [instance_ct : ContentTypeModels, instance_id : {1, 2, 3},
     person : PersonIds, permission : PERMISSIONS]

\* instance.organization: Organization.organization is the organization
\* itself, Project.organization the foreign key, Operation.organization the
\* organization of its project.
instance_organization(row) ==
    CASE row.instance_ct = "organization" -> row.instance_id
      [] row.instance_ct = "project" -> project_organization[row.instance_id]
      [] row.instance_ct = "operation" ->
            project_organization[operation_project[row.instance_id]]

Valid == [raised |-> FALSE, error |-> "", reason |-> ""]
ValidationError(reason) == [raised |-> TRUE, error |-> "ValidationError", reason |-> reason]

\* Mutants of ACE_clean: without the restriction of the content type, and
\* without the restriction to persons employed.
ACE_clean_any_content_type(row) ==
    IF row.person \notin staff
    THEN ValidationError("is not staff")
    ELSE IF InstanceClass(row) = "NoneType"
    THEN [raised |-> TRUE, error |-> "AttributeError", reason |-> "instance"]
    ELSE IF instance_organization(row) \notin organizations_employed[row.person]
    THEN ValidationError("is not employed")
    ELSE Valid

ACE_clean_unemployed(row) ==
    IF \/ app_label(row.instance_ct) # "georga"
       \/ row.instance_ct \notin instance_cts
    THEN ValidationError("is not a valid content type")
    ELSE IF row.person \notin staff
    THEN ValidationError("is not staff")
    ELSE IF InstanceClass(row) = "NoneType"
    THEN [raised |-> TRUE, error |-> "AttributeError", reason |-> "instance"]
    ELSE Valid

\* ACE.clean.  self.instance is None when (instance_ct, instance_id) names
\* no row, and None has no attribute `organization`.
ACE_clean(row) ==
    IF \/ app_label(row.instance_ct) # "georga"
       \/ row.instance_ct \notin instance_cts
    THEN ValidationError("is not a valid content type")
    ELSE IF row.person \notin staff
    THEN ValidationError("is not staff")
    ELSE IF InstanceClass(row) = "NoneType"
    THEN [raised |-> TRUE, error |-> "AttributeError", reason |-> "instance"]
    ELSE IF instance_organization(row) \notin organizations_employed[row.person]
    THEN ValidationError("is not employed")
    ELSE Valid

\* The entry of `obj` as the unsaved instance permits() is asked about.
UnsavedAce(row) == [some |-> TRUE, persisted |-> FALSE, key |-> row]

\* ACE(instance_ct=..., instance_id=..., person=..., permission=...)
NewAce(row) ==
    /\ obj' = [type |-> "ACE", row |-> row]
    /\ last' = [NoCall EXCEPT !.op = "new"]
    /\ UNCHANGED <<aces, user>>

\* ace.clean()
Clean ==
    /\ obj.type = "ACE"
    /\ last' = [op |-> "clean"] @@ ACE_clean(obj.row)
    /\ UNCHANGED <<aces, user, obj>>

\* ace.permits(user, 'create'), before the entry is saved.
PermitsCreate ==
    /\ obj.type = "ACE"
    /\ CallPermits("ACE", UnsavedAce(obj.row), StrArg("create"))

(***************************************************************************)
(* SpecClean: entries are built, validated and checked for permission      *)
(* against a table of at most one row.                                     *)
(***************************************************************************)
InitClean ==
    /\ aces \in {{}} \cup { {row} : row \in AceRows }
    /\ user \in { Person(pk) : pk \in PersonIds }
    /\ last = NoCall
    /\ obj = NoEntity

NextClean ==
    \/ \E row \in CleanRows : NewAce(row)
    \/ Clean
    \/ PermitsCreate

SpecClean == InitClean /\ [][NextClean]_vars

(***************************************************************************)
(* Person.admin_level.  It enumerates self.ace_set.all(), for which no     *)
(* order is declared, and looks at the permission and at the class of the  *)
(* instance of each entry.  `permission` is a CharField: only validation   *)
(* holds it to PERMISSIONS, so an entry may carry another value; the       *)
(* instance is None when the row it names is gone.                         *)
(***************************************************************************)
MaxEntries == 3     \* entries of one person

LevelEntries ==
    [class : {"Organization", "Project", "Operation", "NoneType"},
     permission : PERMISSIONS \cup {"READ"}]

\* A mutant of LevelStep: an operation is taken for the level whatever the
\* level found so far.
LevelStep_unguarded(level, ace) ==
    IF ace.permission # "ADMIN" THEN [return |-> FALSE, level |-> level]
    ELSE IF ace.class = "Organization" THEN [return |-> TRUE, level |-> "ORGANIZATION"]
    ELSE IF ace.class = "Project" THEN [return |-> FALSE, level |-> "PROJECT"]
    ELSE IF ace.class = "Operation" THEN [return |-> FALSE, level |-> "OPERATION"]
    ELSE [return |-> FALSE, level |-> level]

\* The body of the loop of admin_level for one entry.
LevelStep(level, ace) ==
    IF ace.permission # "ADMIN" THEN [return |-> FALSE, level |-> level]
    ELSE IF ace.class = "Organization" THEN [return |-> TRUE, level |-> "ORGANIZATION"]
    ELSE IF ace.class = "Project" THEN [return |-> FALSE, level |-> "PROJECT"]
    ELSE IF level # "PROJECT" /\ ace.class = "Operation"
         THEN [return |-> FALSE, level |-> "OPERATION"]
    ELSE [return |-> FALSE, level |-> level]

RECURSIVE LevelFrom(_, _, _)
LevelFrom(ace_set, i, level) ==
    IF i > Len(ace_set) THEN level
    ELSE LET step == LevelStep(level, ace_set[i]) IN
         IF step.return THEN step.level
         ELSE LevelFrom(ace_set, i + 1, step.level)

admin_level(ace_set) == LevelFrom(ace_set, 1, "NONE")

\* person.admin_level is read.
GetAdminLevel ==
    /\ obj.type = "Person"
    /\ last' = [NoTransition EXCEPT !.op = "admin_level",
                                    !.result = admin_level(obj.ace_set)]
    /\ UNCHANGED <<aces, user, obj>>

(***************************************************************************)
(* SpecLevel: admin_level is read for a person whose entries come in any   *)
(* order.                                                                  *)
(***************************************************************************)
InitLevel ==
    /\ aces = {}
    /\ user = Person(1)
    /\ last = NoTransition
    /\ obj \in { [type |-> "Person", ace_set |-> ace_set] :
                    ace_set \in SeqsUpTo(LevelEntries, MaxEntries) }

NextLevel == GetAdminLevel

SpecLevel == InitLevel /\ [][NextLevel]_vars

(***************************************************************************)
(* What the claims range over.                                             *)
(***************************************************************************)
WellFormed(actions) == ~prepare_permission_actions(actions).raised
WellFormedArgs == { actions \in ActionsArgs : WellFormed(actions) }
AnyInstance(type) == {None(type)} \cup Instances(type)
Denial(p) == p.kind \in {"False", "None"}

(***************************************************************************)
(* C1.  For every persisted instance, the actor and every `actions`,       *)
(* permits() is true exactly if the instance is in what filter_permitted   *)
(* returns for all rows of its type and no instance; both raise for the    *)
(* same `actions`.                                                         *)
(***************************************************************************)
C1_PermitsAgreesWithFilter ==
    \A type \in Types : \A e \in Persisted(type) : \A actions \in ActionsArgs :
        LET p == permits(type, e, user, actions)
            f == filter_permitted(type, objects(type), None(type), user, actions)
        IN  /\ p.raised = f.raised
            /\ ~p.raised => (p.value <=> e.key \in f.rows)

\* permits() was called and granted, while the actor may read one ACE row
\* and not another.
C1_Witness ==
    /\ last.op = "permits" /\ last.value
    /\ \E e1, e2 \in Persisted("ACE") :
          /\ permits("ACE", e1, user, StrArg("read")).value
          /\ ~permits("ACE", e2, user, StrArg("read")).value

(***************************************************************************)
(* C2.  A model that does not override permitted() (Device) denies every   *)
(* instance, actor and action: filter_permitted returns no row and         *)
(* permits() returns False, for unsaved and persisted instances.           *)
(***************************************************************************)
C2_DefaultDeniesAll ==
    \A actions \in WellFormedArgs :
        /\ \A queryset \in Querysets("Device") : \A instance \in AnyInstance("Device") :
              LET f == filter_permitted("Device", queryset, instance, user, actions)
              IN  ~f.raised /\ f.rows = {}
        /\ \A self \in Instances("Device") :
              LET p == permits("Device", self, user, actions)
              IN  ~p.raised /\ ~p.value

\* A call on a Device ended in a denial; the table holds a Device.
C2_Witness ==
    /\ last.op \in {"permits", "filter_permitted"} /\ ~last.raised /\ ~last.value
    /\ Persisted("Device") # {}
    /\ ~permits("Device", CHOOSE d \in Persisted("Device") : TRUE, user, StrArg("read")).value

(***************************************************************************)
(* C3.  An action that a model's permitted() does not name is denied       *)
(* (False or None): never True and never a Q object, for every actor and   *)
(* for no instance, an unsaved and a persisted one.                        *)
(***************************************************************************)
Named(type) ==
    CASE type = "ACE" -> {"create", "read", "update", "delete"}
      [] type = "Person" -> {"read", "write"}
      [] OTHER -> {}

C3_UnnamedActionDenied ==
    \A type \in Types : \A instance \in AnyInstance(type) :
    \A action \in Actions \ Named(type) :
        Denial(permitted(type, instance, user, action))

\* A staff actor asked about an action ACE.permitted does not name, while
\* it has a row it may read.
C3_Witness ==
    /\ last.op = "permits" /\ ~last.raised /\ ~last.value
    /\ is_staff(user)
    /\ \E e \in Persisted("ACE") :
          /\ permits("ACE", e, user, StrArg("read")).value
          /\ ~permits("ACE", e, user, StrArg("share")).value

(***************************************************************************)
(* C4.  filter_permitted skips the actions that are denied, returns the    *)
(* base queryset unfiltered if an action is allowed unconditionally, and   *)
(* otherwise the base queryset restricted to the rows that the Q object of *)
(* some action selects: no row if no action gave True or a Q object.       *)
(***************************************************************************)
BaseRows(type, queryset) == IF queryset.some THEN queryset.rows ELSE Table(type)

C4_FilterCombinesByOr ==
    \A type \in Types : \A queryset \in Querysets(type) :
    \A instance \in AnyInstance(type) : \A actions \in WellFormedArgs :
        LET acts == prepare_permission_actions(actions).actions
            r == [i \in 1..Len(acts) |-> permitted(type, instance, user, acts[i])]
            f == filter_permitted(type, queryset, instance, user, actions)
        IN  /\ ~f.raised
            /\ f.rows =
                 IF \E i \in 1..Len(acts) : r[i].kind = "True"
                 THEN BaseRows(type, queryset)
                 ELSE BaseRows(type, queryset) \cap
                      UNION { r[i].rows : i \in { j \in 1..Len(acts) : r[j].kind = "Q" } }

\* filter_permitted returned rows; ('delete', 'read') selects a row that
\* 'delete' alone does not; and for an unsaved ACE that may be created,
\* ('delete', 'create') skips the denial and returns every row.
C4_Witness ==
    /\ last.op = "filter_permitted" /\ last.value
    /\ filter_permitted("ACE", NoQueryset, None("ACE"), user,
                        TupleArg(<<PyStr("delete"), PyStr("read")>>)).rows
       \ filter_permitted("ACE", NoQueryset, None("ACE"), user, StrArg("delete")).rows # {}
    /\ filter_permitted("ACE", NoQueryset, None("ACE"), user, StrArg("delete")).rows # {}
    /\ \E instance \in Unsaved("ACE") :
          /\ permitted("ACE", instance, user, "delete") = PyFalse
          /\ filter_permitted("ACE", NoQueryset, instance, user,
                              TupleArg(<<PyStr("delete"), PyStr("create")>>)).rows
             = Table("ACE")

(***************************************************************************)
(* C5.  For actions a and b, filter_permitted for (a, b) returns every row *)
(* it returns for a alone and for b alone, and permits() for (a, b) is     *)
(* true whenever it is true for a or for b.                                *)
(***************************************************************************)
Pair(a, b) == TupleArg(<<PyStr(a), PyStr(b)>>)

C5_OrNeverFewer ==
    \A type \in Types : \A a, b \in Actions :
        /\ \A queryset \in Querysets(type) : \A instance \in AnyInstance(type) :
              LET ab == filter_permitted(type, queryset, instance, user, Pair(a, b)).rows
              IN  /\ filter_permitted(type, queryset, instance, user, StrArg(a)).rows \subseteq ab
                  /\ filter_permitted(type, queryset, instance, user, StrArg(b)).rows \subseteq ab
        /\ \A self \in Instances(type) :
              ( permits(type, self, user, StrArg(a)).value
                \/ permits(type, self, user, StrArg(b)).value )
              => permits(type, self, user, Pair(a, b)).value

\* permits() granted, and a row is permitted for ('read', 'delete') that
\* is not permitted for 'delete', next to a row that is.
C5_Witness ==
    /\ last.op = "permits" /\ last.value
    /\ \E e \in Persisted("ACE") :
          /\ permits("ACE", e, user, Pair("read", "delete")).value
          /\ ~permits("ACE", e, user, StrArg("delete")).value
    /\ \E e \in Persisted("ACE") : permits("ACE", e, user, StrArg("delete")).value

(***************************************************************************)
(* C6 as claimed.  permits() on an unsaved instance reads nothing from     *)
(* storage: not the actor's admin id sets, not the row ACE.instance names. *)
(***************************************************************************)
C6_UnsavedReadsNoStorage ==
    \A type \in Types : \A self \in Unsaved(type) : \A actions \in WellFormedArgs :
        PermitsStorageRead(type, self, user, actions) = {}

(***************************************************************************)
(* C6 as amended.  permits() on an unsaved instance is true exactly if     *)
(* permitted() returns True for one of the actions, and it never evaluates *)
(* a queryset.  It reads nothing from storage for a model whose            *)
(* permitted() looks nothing up (Device, Person); for an unsaved ACE and   *)
(* a staff actor asking for 'create' it reads the row ACE.instance names   *)
(* and, for a project or an operation, the admin id set compared with.     *)
(***************************************************************************)
C6_UnsavedDecidedDirectly ==
    \A type \in Types : \A self \in Unsaved(type) : \A actions \in WellFormedArgs :
        LET acts == prepare_permission_actions(actions).actions
            reads == PermitsStorageRead(type, self, user, actions)
        IN  /\ permits(type, self, user, actions).value
               <=> \E i \in 1..Len(acts) :
                      permitted(type, self, user, acts[i]).kind = "True"
            /\ "queryset" \notin reads
            /\ reads \subseteq {"instance", "admin_organization_ids", "admin_project_ids"}
            /\ reads # {} =>
                 /\ type = "ACE" /\ is_staff(user)
                 /\ \E i \in 1..Len(acts) : acts[i] = "create"

\* permits() granted 'create' for an unsaved ACE, and the admin id set of
\* the actor it read for that is now cached on the actor.
C6_Witness ==
    /\ last.op = "permits" /\ last.value
    /\ user.admin_organization_ids.cached
    /\ ~user.admin_operation_ids.cached
    /\ \E self \in Unsaved("ACE") : permits("ACE", self, user, StrArg("create")).value

(***************************************************************************)
(* C7.  For an unsaved instance permitted() returns True, False or None    *)
(* and never a Q object, also for an ACE to be created on something that   *)
(* is neither a project nor an operation.                                  *)
(***************************************************************************)
C7_UnsavedNeverQ ==
    \A type \in Types : \A instance \in Unsaved(type) : \A action \in Actions :
        permitted(type, instance, user, action).kind \in {"True", "False", "None"}

\* A staff actor who is admin of organization 1 asked to create an ACE: on
\* the organization the answer is None, on its project it is True.
C7_Witness ==
    /\ last.op = "permits"
    /\ is_staff(user)
    /\ \E self \in Unsaved("ACE") :
          /\ InstanceClass(self.key) = "Organization"
          /\ permitted("ACE", self, user, "create") = PyNone
    /\ \E self \in Unsaved("ACE") :
          /\ InstanceClass(self.key) = "Project"
          /\ permitted("ACE", self, user, "create") = PyTrue

(***************************************************************************)
(* C8 as claimed.  filter_permitted and permits() raise when `actions` is  *)
(* not a str or a tuple, is a tuple with a member that is not a str, or is *)
(* empty.                                                                  *)
(***************************************************************************)
Malformed(actions) ==
    \/ actions.py \notin {"str", "tuple"}
    \/ \E i \in 1..Len(actions.items) : actions.items[i].py # "str"

C8_MalformedOrEmptyRaises ==
    \A type \in Types : \A actions \in ActionsArgs :
        (Malformed(actions) \/ Len(actions.items) = 0) =>
            /\ filter_permitted(type, NoQueryset, None(type), user, actions).raised
            /\ \A self \in Instances(type) : permits(type, self, user, actions).raised

(***************************************************************************)
(* C8 as amended.  filter_permitted and permits() raise exactly when       *)
(* `actions` is not a str or a tuple, or is a tuple with a member that is  *)
(* not a str.  The empty tuple is accepted: filter_permitted returns no    *)
(* row for it and permits() returns False.                                 *)
(***************************************************************************)
C8_MalformedRaises ==
    \A type \in Types : \A actions \in ActionsArgs :
        /\ \A queryset \in Querysets(type) : \A instance \in AnyInstance(type) :
              LET f == filter_permitted(type, queryset, instance, user, actions)
              IN  /\ f.raised <=> Malformed(actions)
                  /\ actions = TupleArg(<<>>) => f.rows = {}
        /\ \A self \in Instances(type) :
              LET p == permits(type, self, user, actions)
              IN  /\ p.raised <=> Malformed(actions)
                  /\ actions = TupleArg(<<>>) => ~p.value

\* A call raised, while the actor has a row it may read.
C8_Witness ==
    /\ last.op \in {"permits", "filter_permitted"} /\ last.raised
    /\ \E e \in Persisted("ACE") : permits("ACE", e, user, StrArg("read")).value

(***************************************************************************)
(* C9 as claimed.  Whatever ADMIN entries were saved or deleted since the  *)
(* actor object was loaded, a permission check for the actor is decided as *)
(* it is for the actor loaded anew, whose admin id sets come from the      *)
(* entries stored now.                                                     *)
(***************************************************************************)
C9_ChecksUseCurrentEntries ==
    \A self \in Instances("ACE") : \A action \in Actions :
        permits("ACE", self, user, StrArg(action)).value
        = permits("ACE", self, Person(user.pk), StrArg(action)).value

(***************************************************************************)
(* C10.  For every class with a lifecycle state, publish() succeeds        *)
(* exactly when the state is DRAFT, and the state is PUBLISHED then; in    *)
(* any other state, ARCHIVED among them, it raises and the state keeps the *)
(* value it had.                                                           *)
(***************************************************************************)
C10_PublishOnlyFromDraft ==
    last.op = "publish" =>
        /\ last.raised <=> last.before # "DRAFT"
        /\ ~last.raised => obj.state = "PUBLISHED"
        /\ last.raised => (obj.state = last.before /\ last.error = "TransitionNotAllowed")

\* publish() was called on an archived object and raised.
C10_Witness ==
    /\ last.op = "publish" /\ last.raised
    /\ last.before = "ARCHIVED" /\ obj.state = "ARCHIVED"

(***************************************************************************)
(* What the claims about transitions range over: the methods, the field    *)
(* each is declared to change, and the values it is declared to start at.  *)
(***************************************************************************)
Called == last.entity.type \in FsmTypes /\ last.op \in DOMAIN transitions(last.entity.type)

ChannelOf(op) ==
    CASE op \in {"schedule_email", "send_email", "check_email_delivery", "resend_email"}
            -> "email_delivery"
      [] op \in {"schedule_push", "send_push", "check_push_delivery", "resend_push"}
            -> "push_delivery"
      [] op \in {"schedule_sms", "send_sms", "check_sms_delivery", "resend_sms"}
            -> "sms_delivery"

FieldOf(op) ==
    CASE op \in {"publish", "archive", "finish", "cancel", "delete"} -> "state"
      [] op \in {"accept", "decline", "reinquire"} -> "acceptance"
      [] op \in {"confirm", "refuse"} -> "admin_acceptance"
      [] OTHER -> ChannelOf(op)

Channels == {"email_delivery", "push_delivery", "sms_delivery"}

\* The source states of a method, as its decorator lists them.
AllowedSources(type, op) ==
    CASE op = "publish" -> {"DRAFT"}
      [] op = "archive" -> IF type = "Shift" THEN {"PUBLISHED", "FINISHED", "CANCELLED"}
                           ELSE {"PUBLISHED"}
      [] op \in {"finish", "cancel"} -> {"PUBLISHED"}
      [] op = "delete" -> STATES(type)
      [] op = "accept" -> ACCEPTANCE_STATES \ {"ACCEPTED"}
      [] op = "decline" -> ACCEPTANCE_STATES \ {"DECLINED"}
      [] op = "reinquire" -> ACCEPTANCE_STATES \ {"PENDING"}
      [] op = "confirm" -> ADMIN_ACCEPTANCE_STATES \ {"ACCEPTED"}
      [] op = "refuse" -> ADMIN_ACCEPTANCE_STATES \ {"DECLINED"}
      [] op \in {"schedule_email", "schedule_push", "schedule_sms"} -> {"NONE"}
      [] op \in {"send_email", "send_push", "send_sms"} -> {"SCHEDULED"}
      [] op \in {"check_email_delivery", "check_push_delivery", "check_sms_delivery"}
            -> {"SENT"}
      [] op \in {"resend_email", "resend_push", "resend_sms"} -> {"FAILED"}

GuardOf(op, entity) ==
    op \in {"confirm", "refuse"} => entity.acceptance = "ACCEPTED"

(***************************************************************************)
(* C11.  A transition method called while its field is not at one of its   *)
(* source states, or while its guard is false, raises TransitionNotAllowed *)
(* and leaves every state field of the object as it was.                   *)
(***************************************************************************)
C11_RejectedLeavesFields ==
    ( /\ Called
      /\ \/ last.entity[FieldOf(last.op)] \notin AllowedSources(last.entity.type, last.op)
         \/ ~GuardOf(last.op, last.entity) )
    => /\ last.raised /\ last.error = "TransitionNotAllowed"
       /\ \A f \in StateFields(last.entity.type) : obj[f] = last.entity[f]

\* confirm() was rejected for its guard alone: admin_acceptance is at a
\* source state of confirm(), acceptance was declined.
C11_Witness ==
    /\ last.op = "confirm" /\ last.raised
    /\ last.entity.acceptance = "DECLINED"
    /\ last.entity.admin_acceptance = "NONE"
    /\ obj = last.entity

(***************************************************************************)
(* C12 as claimed.  delete() succeeds from every lifecycle state and       *)
(* leaves the state DELETED, with hard=False and with hard=True.           *)
(***************************************************************************)
C12_DeleteAlwaysSucceeds ==
    (Called /\ last.op = "delete") => (~last.raised /\ obj.state = "DELETED")

(***************************************************************************)
(* C12 as amended.  delete() is declared from every lifecycle state.  With *)
(* hard=False it succeeds and leaves the state DELETED.  With hard=True it *)
(* succeeds, leaves the state DELETED and the object without pk, if the    *)
(* object has a pk; if it has none (never saved, or hard-deleted before)   *)
(* Model.delete() raises and the state keeps its value.                    *)
(***************************************************************************)
C12_DeleteFromAnyState ==
    (Called /\ last.op = "delete") =>
        /\ last.raised <=> (last.hard /\ ~last.entity.pk)
        /\ ~last.raised => /\ obj.state = "DELETED"
                           /\ obj.pk = (last.entity.pk /\ ~last.hard)
        /\ last.raised => (obj = last.entity /\ last.error = "ValueError")

\* An archived object with a row was hard-deleted.
C12_Witness ==
    /\ last.op = "delete" /\ last.hard /\ ~last.raised
    /\ last.before = "ARCHIVED" /\ last.entity.pk
    /\ obj.state = "DELETED" /\ ~obj.pk

(***************************************************************************)
(* C13.  A delivery channel of a Message changes only from NONE to         *)
(* SCHEDULED by schedule, from SCHEDULED to SENT by send, from SENT to     *)
(* SUCCEEDED or FAILED by check delivery and from FAILED to SENT by        *)
(* resend; resend on a FAILED channel succeeds.                            *)
(***************************************************************************)
ChannelEdges(op) ==
    CASE op \in {"schedule_email", "schedule_push", "schedule_sms"}
            -> {<<"NONE", "SCHEDULED">>}
      [] op \in {"send_email", "send_push", "send_sms"}
            -> {<<"SCHEDULED", "SENT">>}
      [] op \in {"check_email_delivery", "check_push_delivery", "check_sms_delivery"}
            -> {<<"SENT", "SUCCEEDED">>, <<"SENT", "FAILED">>}
      [] op \in {"resend_email", "resend_push", "resend_sms"}
            -> {<<"FAILED", "SENT">>}
      [] OTHER -> {}

C13_ChannelEdges ==
    (Called /\ last.entity.type = "Message") =>
        /\ \A f \in Channels :
              obj[f] # last.entity[f] =>
                 /\ FieldOf(last.op) = f
                 /\ <<last.entity[f], obj[f]>> \in ChannelEdges(last.op)
        /\ \A f \in Channels :
              ( last.op \in {"resend_email", "resend_push", "resend_sms"}
                /\ FieldOf(last.op) = f /\ last.entity[f] = "FAILED" )
              => (~last.raised /\ obj[f] = "SENT")

\* resend_email() took the failed email channel back to SENT.
C13_Witness ==
    /\ last.op = "resend_email" /\ ~last.raised
    /\ last.entity.email_delivery = "FAILED"
    /\ obj.email_delivery = "SENT"

(***************************************************************************)
(* C14 as claimed.  Message.delivery_state reports the least favourable    *)
(* state of the three channels: error if a channel has failed, else        *)
(* pending if one is pending, else sent if one is sent, else success if    *)
(* one has succeeded, else none.                                           *)
(***************************************************************************)
Favour(value) ==
    CASE value \in {"FAILED", "ERROR"} -> 1
      [] value = "PENDING" -> 2
      [] value = "SENT" -> 3
      [] value \in {"SUCCEEDED", "SUCCESS"} -> 4
      [] OTHER -> 5

C14_LeastFavourable ==
    ( /\ last.op = "delivery_state"
      /\ \A f \in Channels : last.entity[f] \in DELIVERY_STATES )
    => \E f \in Channels :
          /\ Favour(last.result) = Favour(last.entity[f])
          /\ \A g \in Channels : Favour(last.entity[f]) <= Favour(last.entity[g])

(***************************************************************************)
(* C15.  Message.delivery_state is PENDING whenever a channel is PENDING   *)
(* and no channel has failed, whichever channel it is; so for email SENT,  *)
(* push PENDING, sms NONE.                                                 *)
(***************************************************************************)
C15_PendingReported ==
    ( /\ last.op = "delivery_state"
      /\ \E f \in Channels : last.entity[f] = "PENDING"
      /\ \A f \in Channels : last.entity[f] \notin {"FAILED", "ERROR"} )
    => last.result = "PENDING"

\* delivery_state was read for email SENT, push PENDING, sms NONE.
C15_Witness ==
    /\ last.op = "delivery_state" /\ last.result = "PENDING"
    /\ last.entity.email_delivery = "SENT"
    /\ last.entity.push_delivery = "PENDING"
    /\ last.entity.sms_delivery = "NONE"

(***************************************************************************)
(* C16.  Participant.confirm() and Participant.refuse() succeed only if    *)
(* acceptance is ACCEPTED when they are called; with acceptance PENDING or *)
(* DECLINED they raise and admin_acceptance keeps its value.               *)
(***************************************************************************)
C16_AdminNeedsAccepted ==
    (Called /\ last.op \in {"confirm", "refuse"}) =>
        /\ ~last.raised => last.entity.acceptance = "ACCEPTED"
        /\ last.entity.acceptance \in {"PENDING", "DECLINED"} =>
              /\ last.raised
              /\ obj.admin_acceptance = last.entity.admin_acceptance

\* confirm() was rejected for a participant who was refused before and is
\* asked again: admin_acceptance is a source state of confirm().
C16_Witness ==
    /\ last.op = "confirm" /\ last.raised
    /\ last.entity.acceptance = "PENDING"
    /\ last.entity.admin_acceptance = "DECLINED"
    /\ obj.admin_acceptance = "DECLINED"

(***************************************************************************)
(* C19.  A method of one delivery channel of a Message leaves the other    *)
(* two channels and the lifecycle state as they were, whether it succeeds  *)
(* or is rejected; publish(), archive() and delete() leave the three       *)
(* channels as they were.                                                  *)
(***************************************************************************)
C19_ChannelsIndependent ==
    (Called /\ last.entity.type = "Message") =>
        \A f \in StateFields("Message") \ {FieldOf(last.op)} :
            obj[f] = last.entity[f]

\* check_push_delivery() succeeded on a published message whose email is
\* SENT and whose sms is SCHEDULED.
C19_Witness ==
    /\ last.op = "check_push_delivery" /\ ~last.raised
    /\ obj.push_delivery = "SUCCEEDED"
    /\ obj.email_delivery = "SENT" /\ obj.sms_delivery = "SCHEDULED"
    /\ obj.state = "PUBLISHED"

(***************************************************************************)
(* C17.  ACE.clean() raises a ValidationError whenever the content type of *)
(* the entry is not organization, project or operation of this             *)
(* application, and does not raise for the content type when it is one of  *)
(* the three.                                                              *)
(***************************************************************************)
ValidTarget(row) ==
    /\ row.instance_ct \in {"organization", "project", "operation"}
    /\ app_label(row.instance_ct) = "georga"

C17_CleanRestrictsContentType ==
    last.op = "clean" =>
        /\ ~ValidTarget(obj.row) =>
              /\ last.raised /\ last.error = "ValidationError"
              /\ last.reason = "is not a valid content type"
        /\ ValidTarget(obj.row) => last.reason # "is not a valid content type"

\* clean() rejected an entry for a task, whose person is staff and employed
\* at every organization the id could stand for.
C17_Witness ==
    /\ last.op = "clean" /\ last.raised
    /\ last.reason = "is not a valid content type"
    /\ obj.row.instance_ct = "task" /\ obj.row.person \in staff

(***************************************************************************)
(* C18.  ACE.clean() raises a ValidationError whenever the person of the   *)
(* entry is not employed by the organization that owns the target: the     *)
(* organization itself, the organization of the project, the organization  *)
(* of the project of the operation.  permits() raises nothing for such an  *)
(* entry: the error is one of validation, not of a permission check.       *)
(***************************************************************************)
Owner(row) ==
    CASE row.instance_ct = "organization" -> row.instance_id
      [] row.instance_ct = "project" -> project_organization[row.instance_id]
      [] row.instance_ct = "operation" ->
            project_organization[operation_project[row.instance_id]]

HasTarget(row) == ValidTarget(row) /\ row.instance_id \in TargetIds(row.instance_ct)

C18_CleanRestrictsEmployment ==
    /\ ( /\ last.op = "clean"
         /\ HasTarget(obj.row)
         /\ Owner(obj.row) \notin organizations_employed[obj.row.person] )
       => (last.raised /\ last.error = "ValidationError")
    /\ obj.type = "ACE" =>
          \A action \in Actions :
             ~permits("ACE", UnsavedAce(obj.row), user, StrArg(action)).raised
    /\ last.op = "permits" => ~last.raised

\* clean() rejected the entry of a staff person for an operation of an
\* organization that does not employ the person.
C18_Witness ==
    /\ last.op = "clean" /\ last.raised /\ last.reason = "is not employed"
    /\ obj.row.instance_ct = "operation"
    /\ obj.row.person \in staff

(***************************************************************************)
(* C20.  For a persisted person p and an actor u, p.permits(u, 'read') and *)
(* p.permits(u, 'write') hold exactly if p is u; every other action is     *)
(* denied for every actor, as is every action on a person not yet saved.   *)
(***************************************************************************)
C20_PersonOnlyItself ==
    \A action \in Actions :
        /\ \A p \in Persisted("Person") :
              permits("Person", p, user, StrArg(action)).value
              <=> (action \in {"read", "write"} /\ p.key = user.pk)
        /\ \A p \in Unsaved("Person") :
              ~permits("Person", p, user, StrArg(action)).value

\* permits() granted to an actor who is not staff, with no ACE stored: the
\* actor read itself.
C20_Witness ==
    /\ last.op = "permits" /\ last.value
    /\ ~is_staff(user) /\ aces = {}
    /\ permits("Person", [some |-> TRUE, persisted |-> TRUE, key |-> user.pk],
               user, StrArg("read")).value

(***************************************************************************)
(* What the claims about access control entries range over: the target of  *)
(* an entry, and whether the actor's id sets hold it.                      *)
(***************************************************************************)
OnProjectOfAdminOrganization(row, u) ==
    /\ row.instance_ct = "project" /\ row.instance_id \in ProjectIds
    /\ project_organization[row.instance_id] \in admin_organization_ids(u)

OnOperationOfAdminProject(row, u) ==
    /\ row.instance_ct = "operation" /\ row.instance_id \in OperationIds
    /\ operation_project[row.instance_id] \in admin_project_ids(u)

OnAdminTarget(row, u) ==
    \/ row.instance_ct = "organization" /\ row.instance_id \in admin_organization_ids(u)
    \/ row.instance_ct = "project" /\ row.instance_id \in admin_project_ids(u)
    \/ row.instance_ct = "operation" /\ row.instance_id \in admin_operation_ids(u)

PersistedAce(row) == [some |-> TRUE, persisted |-> TRUE, key |-> row]

(***************************************************************************)
(* C21.  permits(user, 'create') for an ACE not yet saved is true exactly  *)
(* if the actor is staff and the target is a project whose organization is *)
(* in the actor's admin_organization_ids, or an operation whose project is *)
(* in the actor's admin_project_ids; it is false for every other target,   *)
(* an organization among them, and for an actor who is not staff.          *)
(***************************************************************************)
C21_CreateByAdminOfParent ==
    \A row \in CleanRows :
        permits("ACE", UnsavedAce(row), user, StrArg("create")).value
        <=> /\ user.pk \in staff
            /\ \/ OnProjectOfAdminOrganization(row, user)
               \/ OnOperationOfAdminProject(row, user)

\* permits() granted to a staff actor who is admin of organization 1: an
\* ACE on its project may be created, one on the organization may not.
C21_Witness ==
    /\ last.op = "permits" /\ last.value
    /\ user.pk \in staff
    /\ 1 \in admin_organization_ids(user)
    /\ \E row \in CleanRows :
          /\ row.instance_ct = "project"
          /\ permits("ACE", UnsavedAce(row), user, StrArg("create")).value
    /\ \A row \in CleanRows :
          row.instance_ct = "organization"
          => ~permits("ACE", UnsavedAce(row), user, StrArg("create")).value

(***************************************************************************)
(* C22 as claimed.  For every actor u, permits(u, 'read') is true for      *)
(* every persisted ACE whose person is u; an ACE of another person is      *)
(* readable by u only if its target is in the admin id set of u for the    *)
(* kind of the target.                                                     *)
(***************************************************************************)
C22_OwnEntriesReadable ==
    \A e \in Persisted("ACE") :
        /\ e.key.person = user.pk => permits("ACE", e, user, StrArg("read")).value
        /\ ( e.key.person # user.pk /\ permits("ACE", e, user, StrArg("read")).value )
           => OnAdminTarget(e.key, user)

(***************************************************************************)
(* C22 as amended.  For a staff actor u, permits(u, 'read') is true for a  *)
(* persisted ACE exactly if its person is u or its target is in the admin  *)
(* id set of u for the kind of the target; for an actor who is not staff   *)
(* it is false for every ACE, the actor's own among them.                  *)
(***************************************************************************)
C22_StaffReadsOwnAndAdministered ==
    \A e \in Persisted("ACE") :
        permits("ACE", e, user, StrArg("read")).value
        <=> /\ user.pk \in staff
            /\ (e.key.person = user.pk \/ OnAdminTarget(e.key, user))

\* permits() granted; the staff actor may read an ACE of its own, and may
\* not read an ACE of another person that is stored next to it.
C22_Witness ==
    /\ last.op = "permits" /\ last.value
    /\ user.pk \in staff
    /\ \E e \in Persisted("ACE") :
          /\ e.key.person = user.pk
          /\ permits("ACE", e, user, StrArg("read")).value
    /\ \E e \in Persisted("ACE") :
          /\ e.key.person # user.pk
          /\ ~permits("ACE", e, user, StrArg("read")).value

(***************************************************************************)
(* C23 as claimed.  permits(user, 'delete') for a persisted ACE is true    *)
(* exactly if it is on a project whose organization is in the actor's      *)
(* admin_organization_ids or on an operation whose project is in the       *)
(* actor's admin_project_ids.                                              *)
(***************************************************************************)
C23_DeleteByAdminOfParent ==
    \A e \in Persisted("ACE") :
        permits("ACE", e, user, StrArg("delete")).value
        <=> \/ OnProjectOfAdminOrganization(e.key, user)
            \/ OnOperationOfAdminProject(e.key, user)

(***************************************************************************)
(* C23 as amended.  permits(user, 'delete') for a persisted ACE is true    *)
(* exactly if the actor is staff and the ACE is on a project whose         *)
(* organization is in the actor's admin_organization_ids or on an          *)
(* operation whose project is in the actor's admin_project_ids.  So nobody *)
(* may delete an ACE on an organization, and who is admin of the project   *)
(* only (of the operation only) may not delete an ACE on that project      *)
(* (operation).                                                            *)
(***************************************************************************)
C23_StaffDeletesByAdminOfParent ==
    \A e \in Persisted("ACE") :
        /\ permits("ACE", e, user, StrArg("delete")).value
           <=> /\ user.pk \in staff
               /\ \/ OnProjectOfAdminOrganization(e.key, user)
                  \/ OnOperationOfAdminProject(e.key, user)
        /\ e.key.instance_ct = "organization"
           => ~permits("ACE", e, user, StrArg("delete")).value
        /\ ( /\ e.key.instance_ct = "project"
             /\ project_organization[e.key.instance_id] \notin admin_organization_ids(user) )
           => ~permits("ACE", e, user, StrArg("delete")).value
        /\ ( /\ e.key.instance_ct = "operation"
             /\ operation_project[e.key.instance_id] \notin admin_project_ids(user) )
           => ~permits("ACE", e, user, StrArg("delete")).value

\* The staff actor is admin of project 2 only, by an ACE it may read and
\* update and may not delete; permits() has just refused.
C23_Witness ==
    /\ last.op = "permits" /\ ~last.value /\ ~last.raised
    /\ user.pk \in staff
    /\ admin_organization_ids(user) = {}
    /\ \E e \in Persisted("ACE") :
          /\ e.key.instance_ct = "project" /\ e.key.person = user.pk
          /\ permits("ACE", e, user, StrArg("update")).value
          /\ ~permits("ACE", e, user, StrArg("delete")).value

(***************************************************************************)
(* C24.  The id sets inherit downwards: with an ADMIN entry of the actor   *)
(* on an organization, every project of the organization is in             *)
(* admin_project_ids and every operation of these projects is in           *)
(* admin_operation_ids; with an ADMIN entry on a project, every operation  *)
(* of the project is in admin_operation_ids; and no project and no         *)
(* operation is in these sets without an ADMIN entry of the actor on       *)
(* itself or on an ancestor.                                               *)
(***************************************************************************)
HoldsAdmin(pk, ct, id) ==
    [instance_ct |-> ct, instance_id |-> id, person |-> pk, permission |-> "ADMIN"]
        \in aces

C24_AdminInheritedDownwards ==
    LET pk == user.pk IN
    /\ \A o \in OrganizationIds : \A p \in ProjectIds : \A op \in OperationIds :
          ( HoldsAdmin(pk, "organization", o) /\ project_organization[p] = o )
          => /\ p \in admin_project_ids(user)
             /\ operation_project[op] = p => op \in admin_operation_ids(user)
    /\ \A p \in ProjectIds : \A op \in OperationIds :
          ( HoldsAdmin(pk, "project", p) /\ operation_project[op] = p )
          => op \in admin_operation_ids(user)
    /\ \A p \in admin_project_ids(user) :
          \/ HoldsAdmin(pk, "project", p)
          \/ HoldsAdmin(pk, "organization", project_organization[p])
    /\ \A op \in admin_operation_ids(user) :
          \/ HoldsAdmin(pk, "operation", op)
          \/ HoldsAdmin(pk, "project", operation_project[op])
          \/ HoldsAdmin(pk, "organization", project_organization[operation_project[op]])

\* The actor holds one ADMIN entry, on organization 1, and a check has
\* computed the three sets: project 1 and both operations are in them.
C24_Witness ==
    /\ last.op = "permits"
    /\ AcesOfPerson(user.pk) =
          {[instance_ct |-> "organization", instance_id |-> 1,
            person |-> user.pk, permission |-> "ADMIN"]}
    /\ user.admin_project_ids = Cached({1})
    /\ user.admin_operation_ids = Cached({1, 2})

(***************************************************************************)
(* C25.  Person.admin_level is the highest level on which the person has   *)
(* an ADMIN entry, ORGANIZATION above PROJECT above OPERATION above NONE,  *)
(* in whatever order the entries are enumerated; entries whose permission  *)
(* is not ADMIN do not count.                                              *)
(***************************************************************************)
AdminClasses(ace_set) ==
    { ace_set[i].class : i \in { j \in 1..Len(ace_set) : ace_set[j].permission = "ADMIN" } }

HighestLevel(ace_set) ==
    IF "Organization" \in AdminClasses(ace_set) THEN "ORGANIZATION"
    ELSE IF "Project" \in AdminClasses(ace_set) THEN "PROJECT"
    ELSE IF "Operation" \in AdminClasses(ace_set) THEN "OPERATION"
    ELSE "NONE"

Orders(n) ==
    { f \in [1..n -> 1..n] : \A i, j \in 1..n : f[i] = f[j] => i = j }

C25_AdminLevelHighest ==
    last.op = "admin_level" =>
        /\ last.result = HighestLevel(obj.ace_set)
        /\ \A f \in Orders(Len(obj.ace_set)) :
              admin_level([i \in 1..Len(obj.ace_set) |-> obj.ace_set[f[i]]]) = last.result

\* admin_level is PROJECT for an ADMIN entry on a project that is followed
\* by an ADMIN entry on an operation and by a READ entry on an organization.
C25_Witness ==
    /\ last.op = "admin_level" /\ last.result = "PROJECT"
    /\ obj.ace_set = << [class |-> "Project", permission |-> "ADMIN"],
                        [class |-> "Operation", permission |-> "ADMIN"],
                        [class |-> "Organization", permission |-> "READ"] >>

(***************************************************************************)
(* C26.  Whatever delivery transitions a Message went through, each of     *)
(* email_delivery, push_delivery and sms_delivery holds one of the choices *)
(* declared in DELIVERY_STATES: NONE, PENDING, SENT, SUCCEEDED, FAILED.    *)
(***************************************************************************)
C26_ChannelsHoldDeclaredChoices ==
    obj.type = "Message" => \A f \in Channels : obj[f] \in DELIVERY_STATES

(***************************************************************************)
(* C27.  Whatever sequence of accept, decline, reinquire, confirm and      *)
(* refuse a Participant went through, admin_acceptance = ACCEPTED implies  *)
(* acceptance = ACCEPTED.                                                  *)
(***************************************************************************)
C27_ConfirmationNeedsAcceptance ==
    obj.type = "Participant" =>
        (obj.admin_acceptance = "ACCEPTED" => obj.acceptance = "ACCEPTED")

(***************************************************************************)
(* C28.  For the actor object and every persisted ACE, a delete check that *)
(* permits is followed by an update check that permits, and that by a read *)
(* check that permits, whatever entries were saved and deleted between the *)
(* earlier checks on the actor object.                                     *)
(***************************************************************************)
C28_DeleteWithinUpdateWithinRead ==
    \A e \in Persisted("ACE") :
        LET afterDelete == UserAfterPermits("ACE", e, user, StrArg("delete"))
            afterUpdate == UserAfterPermits("ACE", e, afterDelete, StrArg("update"))
        IN  /\ permits("ACE", e, user, StrArg("delete")).value
               => permits("ACE", e, afterDelete, StrArg("update")).value
            /\ permits("ACE", e, afterDelete, StrArg("update")).value
               => permits("ACE", e, afterUpdate, StrArg("read")).value

=============================================================================
